---- MODULE Spec2Model ----
(***************************************************************************)
(* Model of supyx.wxnavimgation: the hint overlay (hints.py) and the modal *)
(* key dispatcher (modes.py).                                              *)
(*                                                                         *)
(* Strings of the program that are indexed or compared by prefix (hint     *)
(* labels, the input buffer, the alphabet) are sequences of one-character  *)
(* strings.  A target is a pair <<widget, row>>; row = NoRow for a plain   *)
(* widget and the item index for a (ListCtrl, item_index) tuple.           *)
(***************************************************************************)
EXTENDS Integers, Sequences, FiniteSets, TLC

\* ------------------------------------------------------------------------
\* Bounds of the model
\* ------------------------------------------------------------------------
\* largest item count of the list control in the modelled window
MaxRows == 13
\* number of targets labelled by the show() loop in LabelSpec
MaxTargets == 1000
\* number of do_focus callbacks that may be scheduled at once
MaxPending == 1
\* largest number of hints of a session in NarrowSpec
MaxNarrowHints == 3

\* ------------------------------------------------------------------------
\* Program constants
\* ------------------------------------------------------------------------
HINT_CHARACTERS ==
    <<"a","s","d","f","g","q","w","e","r","t","z","x","c","v","b">>

WXK_ESCAPE == 27
WXK_RETURN == 13
WXK_TAB == 9
WXK_SPACE == 32

\* chr() of the lower-case letters 97..122 and str.upper() of them
LowerLetters ==
    <<"a","b","c","d","e","f","g","h","i","j","k","l","m",
      "n","o","p","q","r","s","t","u","v","w","x","y","z">>
UpperLetters ==
    <<"A","B","C","D","E","F","G","H","I","J","K","L","M",
      "N","O","P","Q","R","S","T","U","V","W","X","Y","Z">>

\* ------------------------------------------------------------------------
\* The window: a frame with a checkbox, a panel holding a text box and a
\* list control, and a second checkbox, in child iteration order.
\* ------------------------------------------------------------------------
NoWidget == 0
NoRow == 0 - 1
Frame == 1
Widgets == 1..6
Kind == <<"Frame", "CheckBox", "Panel", "TextCtrl", "ListCtrl", "CheckBox">>
ChildList == << <<2, 3, 6>>, <<>>, <<4, 5>>, <<>>, <<>>, <<>> >>
CheckBoxes == {w \in Widgets : Kind[w] = "CheckBox"}
RowCounts == {0, MaxRows}

VimModes == {"DEFAULT", "HINT", "SEARCH"}

\* key codes delivered to the window: Escape, '/', '1', 'A', 'a',
\* 'f', 'i', 's'
Keys == {WXK_ESCAPE, 47, 49, 65, 97, 102, 105, 115}

VARIABLES
    vim_mode,       \* VimNavigationMixin.vim_mode
    hints,          \* HintOverlay.hints: sequence of [widget, hint]
    hint_windows,   \* HintOverlay.hint_windows: sequence of panels
    current_input,  \* HintOverlay.current_input
    search_shown,   \* whether the search overlay's UI is up
    status_text,    \* text of status bar field 1
    focus,          \* wx.Window.FindFocus(), NoWidget when none
    status,         \* per widget: "ok", "hidden", "disabled", "destroyed"
    item_count,     \* GetItemCount() of the list control
    value,          \* GetValue() of each checkbox
    pending,        \* number of scheduled do_focus callbacks
    ev,             \* record of the last completed operation
    session,        \* the hints created by show(), while its labels are fed
    typed,          \* characters fed to the dispatcher since that show()
    activated,      \* targets activated since that show()
    toggles         \* SetValue calls on each checkbox since that show()

vars == <<vim_mode, hints, hint_windows, current_input, search_shown,
          status_text, focus, status, item_count, value, pending, ev,
          session, typed, activated, toggles>>

\* ------------------------------------------------------------------------
\* Toolkit queries on the widget tree
\* ------------------------------------------------------------------------
IsShown(w) == status[w] # "hidden"
IsEnabled(w) == status[w] # "disabled"
IsDestroyed(w) == status[w] = "destroyed"
GetChildren(w) == SelectSeq(ChildList[w], LAMBDA c : ~IsDestroyed(c))

\* isinstance(focused, (wx.TextCtrl, wx.ComboBox, wx.SearchCtrl))
IsInput(w) ==
    /\ w # NoWidget
    /\ Kind[w] \in {"TextCtrl", "ComboBox", "SearchCtrl"}

\* ------------------------------------------------------------------------
\* HintOverlay._generate_hint_string
\* ------------------------------------------------------------------------
hint_chars == HINT_CHARACTERS

\* a slip that reuses first_idx for the second character
GenerateHintString_SameDigit(index) ==
    LET chars == hint_chars
        num_chars == Len(chars)
    IN  IF index < num_chars
        THEN <<chars[index + 1]>>
        ELSE LET first_idx == (index - num_chars) \div num_chars
             IN  IF first_idx < num_chars
                 THEN <<chars[first_idx + 1], chars[first_idx + 1]>>
                 ELSE <<chars[(first_idx \div num_chars) + 1],
                        chars[(first_idx % num_chars) + 1],
                        chars[(first_idx % num_chars) + 1]>>

\* a slip that puts the remainder first and the quotient second
GenerateHintString_Swapped(index) ==
    LET chars == hint_chars
        num_chars == Len(chars)
    IN  IF index < num_chars
        THEN <<chars[index + 1]>>
        ELSE LET first_idx == (index - num_chars) \div num_chars
                 second_idx == (index - num_chars) % num_chars
             IN  IF first_idx < num_chars
                 THEN <<chars[second_idx + 1], chars[first_idx + 1]>>
                 ELSE <<chars[(first_idx \div num_chars) + 1],
                        chars[(first_idx % num_chars) + 1],
                        chars[second_idx + 1]>>

GenerateHintString(index) ==
    LET chars == hint_chars
        num_chars == Len(chars)
    IN  IF index < num_chars
        THEN <<chars[index + 1]>>
        ELSE LET first_idx == (index - num_chars) \div num_chars
                 second_idx == (index - num_chars) % num_chars
             IN  IF first_idx < num_chars
                 THEN <<chars[first_idx + 1], chars[second_idx + 1]>>
                 ELSE LET third_idx == first_idx % num_chars
                          first_idx2 == first_idx \div num_chars
                      IN  <<chars[first_idx2 + 1], chars[third_idx + 1],
                            chars[second_idx + 1]>>

\* str.startswith
StartsWith(s, p) ==
    /\ Len(p) <= Len(s)
    /\ SubSeq(s, 1, Len(p)) = p

\* ------------------------------------------------------------------------
\* HintOverlay._find_widgets
\* ------------------------------------------------------------------------
InputKinds == {"TextCtrl", "ComboBox", "SearchCtrl"}
ClickableKinds == {"Button", "BitmapButton", "ToggleButton", "CheckBox",
                   "RadioButton", "Choice", "ComboBox", "TextCtrl",
                   "SearchCtrl"}

\* a collector that hints a list control as one widget
Own_ListAsWidget(widget, hint_type) ==
    IF hint_type = "input"
    THEN IF Kind[widget] \in InputKinds THEN << <<widget, NoRow>> >> ELSE <<>>
    ELSE IF Kind[widget] \in ClickableKinds \cup {"ListCtrl"}
         THEN << <<widget, NoRow>> >>
         ELSE <<>>

\* what traverse() appends for the widget itself
Own(widget, hint_type) ==
    IF hint_type = "input"
    THEN IF Kind[widget] \in InputKinds THEN << <<widget, NoRow>> >> ELSE <<>>
    ELSE IF Kind[widget] = "ListCtrl"
         THEN [i \in 1..item_count |-> <<widget, i - 1>>]
         ELSE IF Kind[widget] \in ClickableKinds
              THEN << <<widget, NoRow>> >>
              ELSE <<>>

RECURSIVE Traverse(_, _)
RECURSIVE TraverseEach(_, _)
\* a traversal that leaves a hidden or disabled widget out and still visits
\* its children
Traverse_SkipSelfOnly(widget, hint_type) ==
    (IF ~IsShown(widget) \/ ~IsEnabled(widget)
     THEN <<>>
     ELSE Own(widget, hint_type))
    \o TraverseEach(GetChildren(widget), hint_type)

\* a traversal that prunes hidden widgets only
Traverse_ShownOnly(widget, hint_type) ==
    IF ~IsShown(widget)
    THEN <<>>
    ELSE Own(widget, hint_type) \o TraverseEach(GetChildren(widget), hint_type)

Traverse(widget, hint_type) ==
    IF ~IsShown(widget) \/ ~IsEnabled(widget)
    THEN <<>>
    ELSE Own(widget, hint_type) \o TraverseEach(GetChildren(widget), hint_type)

\* a loop over the children from the last to the first
TraverseEach_Reversed(ws, hint_type) ==
    IF ws = <<>>
    THEN <<>>
    ELSE Traverse(ws[Len(ws)], hint_type)
         \o TraverseEach(SubSeq(ws, 1, Len(ws) - 1), hint_type)

TraverseEach(ws, hint_type) ==
    IF ws = <<>>
    THEN <<>>
    ELSE Traverse(Head(ws), hint_type) \o TraverseEach(Tail(ws), hint_type)

FindWidgets(hint_type) == Traverse(Frame, hint_type)

\* ------------------------------------------------------------------------
\* Key codes to characters
\* ------------------------------------------------------------------------
\* chr() of the printable ASCII codes 32..126 (code 96, the grave accent, is
\* spelled out)
Printable ==
    <<
      " ", "!", "\"", "#", "$", "%", "&", "'", "(", ")", "*", "+",
      ",", "-", ".", "/", "0", "1", "2", "3", "4", "5", "6", "7",
      "8", "9", ":", ";", "<", "=", ">", "?", "@", "A", "B", "C",
      "D", "E", "F", "G", "H", "I", "J", "K", "L", "M", "N", "O",
      "P", "Q", "R", "S", "T", "U", "V", "W", "X", "Y", "Z", "[",
      "\\", "]", "^", "_", "grave", "a", "b", "c", "d", "e", "f", "g",
      "h", "i", "j", "k", "l", "m", "n", "o", "p", "q", "r", "s",
      "t", "u", "v", "w", "x", "y", "z", "{", "|", "}", "~"
    >>

Chr(keycode) == Printable[keycode - 31]

\* str.lower() and str.upper() of one character
Lower(c) ==
    IF \E i \in 1..26 : UpperLetters[i] = c
    THEN LowerLetters[CHOOSE i \in 1..26 : UpperLetters[i] = c]
    ELSE c

Upper(c) ==
    IF \E i \in 1..26 : LowerLetters[i] = c
    THEN UpperLetters[CHOOSE i \in 1..26 : LowerLetters[i] = c]
    ELSE c

UpperStr(s) == [i \in 1..Len(s) |-> Upper(s[i])]

InChars(c, chars) == \E i \in 1..Len(chars) : chars[i] = c

\* the character handle_key derives from a key code, "" standing for None
NoChar == ""
KeyChar(keycode) ==
    IF 97 <= keycode /\ keycode <= 122
    THEN Chr(keycode)
    ELSE IF 65 <= keycode /\ keycode <= 90
         THEN Chr(keycode + 32)
         ELSE NoChar

\* VimNavigationMixin._get_key_string
GetKeyString(keycode) ==
    IF keycode = WXK_ESCAPE THEN "Escape"
    ELSE IF keycode = WXK_RETURN THEN "Return"
    ELSE IF keycode = WXK_TAB THEN "Tab"
    ELSE IF keycode = WXK_SPACE THEN "Space"
    ELSE IF keycode = 47 THEN "/"
    ELSE IF 32 <= keycode /\ keycode <= 126 THEN Lower(Chr(keycode))
    ELSE ""

\* ------------------------------------------------------------------------
\* The handlers are sequential code: each operator below maps the record s
\* of the mutable program state to the record after the call.  Besides the
\* program's fields, s carries the outcome of the running key event
\* (skipped, raised, ret, cmd).
\* ------------------------------------------------------------------------
Cur ==
    [vim_mode |-> vim_mode, hints |-> hints, hint_windows |-> hint_windows,
     current_input |-> current_input, search_shown |-> search_shown,
     status_text |-> status_text, focus |-> focus, value |-> value,
     pending |-> pending, activated |-> activated, toggles |-> toggles,
     skipped |-> FALSE, raised |-> FALSE, ret |-> TRUE, cmd |-> "none"]

\* event.Skip()
Skip(s) == [s EXCEPT !.skipped = TRUE]

\* widget.SetFocus(): the toolkit gives focus to a shown, enabled widget
SetFocus(s, w) ==
    IF IsShown(w) /\ IsEnabled(w) THEN [s EXCEPT !.focus = w] ELSE s

\* a clear that destroys the windows and forgets to reset the hints
ClearHints_KeepHints(s) == [s EXCEPT !.hint_windows = <<>>]

\* HintOverlay._clear_hints
ClearHints(s) == [s EXCEPT !.hint_windows = <<>>, !.hints = <<>>]

\* a teardown that forgets the input buffer
Hide_KeepInput(s) == ClearHints(s)

\* a teardown that reaches for the first hint window without looking
Hide_AssumesSession(s) ==
    IF s.hint_windows = <<>>
    THEN [s EXCEPT !.raised = TRUE]
    ELSE [ClearHints(s) EXCEPT !.current_input = <<>>]

\* HintOverlay.hide
Hide(s) == [ClearHints(s) EXCEPT !.current_input = <<>>]

\* SearchOverlay.hide and SearchOverlay.show
SearchHide(s) == [s EXCEPT !.search_shown = FALSE]
SearchShow(s) == [s EXCEPT !.search_shown = TRUE]

\* VimNavigationMixin._update_mode_display
UpdateModeDisplay(s) ==
    LET mode_str == IF s.vim_mode = "HINT" THEN "-- HINTS --"
                    ELSE IF s.vim_mode = "SEARCH" THEN "-- SEARCH --"
                    ELSE ""
    IN  [s EXCEPT !.status_text = mode_str]

\* a setter that refreshes the status bar before it stores the mode
SetVimMode_DisplayFirst(s, mode) ==
    LET s1 == [UpdateModeDisplay(s) EXCEPT !.vim_mode = mode]
        s2 == IF mode # "HINT" THEN Hide(s1) ELSE s1
    IN  IF mode # "SEARCH" THEN SearchHide(s2) ELSE s2

\* VimNavigationMixin.set_vim_mode
SetVimMode(s, mode) ==
    LET s1 == UpdateModeDisplay([s EXCEPT !.vim_mode = mode])
        s2 == IF mode # "HINT" THEN Hide(s1) ELSE s1
    IN  IF mode # "SEARCH" THEN SearchHide(s2) ELSE s2

\* HintOverlay._create_hint_window: the panel appended to hint_windows
CreateHintWindow(widget_or_item, hint_str) ==
    [target |-> widget_or_item,
     label |-> UpperStr(hint_str),
     width |-> 8 + Len(hint_str) * 8,
     shown |-> TRUE]

\* the loop body of show(): label, window and hint for target number i
ShowOne(s, widgets, i) ==
    LET hint_str == GenerateHintString(i)
    IN  [s EXCEPT
           !.hint_windows =
               Append(@, CreateHintWindow(widgets[i + 1], hint_str)),
           !.hints = Append(@, [widget |-> widgets[i + 1], hint |-> hint_str])]

RECURSIVE ShowLoop(_, _, _)
ShowLoop(s, widgets, i) ==
    IF i >= Len(widgets)
    THEN s
    ELSE ShowLoop(ShowOne(s, widgets, i), widgets, i + 1)

\* a show() that leaves the mode alone when nothing was found
Show_NoRevert(s, hint_type) ==
    ShowLoop(ClearHints(s), FindWidgets(hint_type), 0)

\* HintOverlay.show
Show(s, hint_type) ==
    LET s1 == ClearHints(s)
        widgets == FindWidgets(hint_type)
    IN  IF widgets = <<>>
        THEN SetVimMode(s1, "DEFAULT")
        ELSE ShowLoop(s1, widgets, 0)

\* HintOverlay._activate_widget; dereferencing a destroyed widget raises
ActivateWidget(s, widget_or_item) ==
    LET widget == widget_or_item[1]
        acted == [s EXCEPT !.activated = Append(@, widget_or_item)]
    IN  IF IsDestroyed(widget)
        THEN [s EXCEPT !.raised = TRUE]
        ELSE IF widget_or_item[2] # NoRow
        THEN SetFocus(acted, widget)
        ELSE IF Kind[widget] \in {"Button", "BitmapButton", "ToggleButton"}
        THEN acted
        ELSE IF Kind[widget] = "CheckBox"
        THEN [acted EXCEPT !.value[widget] = ~@,
                           !.toggles[widget] = @ + 1]
        ELSE IF Kind[widget] = "RadioButton"
        THEN [acted EXCEPT !.value[widget] = TRUE]
        ELSE IF Kind[widget] \in {"TextCtrl", "ComboBox", "SearchCtrl",
                                  "ListCtrl", "Choice"}
        THEN SetFocus(acted, widget)
        ELSE acted

\* a refresh that keeps only the windows whose label equals the buffer
UpdateHintVisibility_ExactOnly(s) ==
    [s EXCEPT !.hint_windows =
        [i \in 1..Len(s.hint_windows) |->
            IF i <= Len(s.hints)
            THEN [s.hint_windows[i] EXCEPT
                    !.shown = (s.hints[i].hint = s.current_input)]
            ELSE s.hint_windows[i]]]

\* HintOverlay._update_hint_visibility
UpdateHintVisibility(s) ==
    [s EXCEPT !.hint_windows =
        [i \in 1..Len(s.hint_windows) |->
            IF i <= Len(s.hints)
            THEN [s.hint_windows[i] EXCEPT
                    !.shown = StartsWith(s.hints[i].hint, s.current_input)]
            ELSE s.hint_windows[i]]]

\* handle_key from the point where the character is appended to the buffer
HandleChar(s, char) ==
    LET s1 == [s EXCEPT !.current_input = Append(@, char)]
        matching == {i \in 1..Len(s1.hints) :
                        StartsWith(s1.hints[i].hint, s1.current_input)}
        exact == {i \in matching : s1.hints[i].hint = s1.current_input}
    IN  IF exact # {}
        THEN LET first == CHOOSE i \in exact : \A j \in exact : i <= j
                 s2 == ActivateWidget(s1, s1.hints[first].widget)
             IN  IF s2.raised
                 THEN s2
                 ELSE SetVimMode(Hide(s2), "DEFAULT")
        ELSE IF matching = {}
             THEN SetVimMode(Hide(s1), "DEFAULT")
             ELSE UpdateHintVisibility(s1)

\* a handler that lets keys outside the alphabet through and stays active
HandleKey_IgnoreOther(s, keycode) ==
    IF keycode = WXK_ESCAPE
    THEN SetVimMode(Hide(s), "DEFAULT")
    ELSE LET char == KeyChar(keycode)
         IN  IF char = NoChar \/ ~InChars(char, hint_chars)
             THEN [s EXCEPT !.ret = FALSE]
             ELSE HandleChar(s, char)

\* HintOverlay.handle_key
HandleKey(s, keycode) ==
    IF keycode = WXK_ESCAPE
    THEN SetVimMode(Hide(s), "DEFAULT")
    ELSE LET char == KeyChar(keycode)
         IN  IF char = NoChar \/ ~InChars(char, hint_chars)
             THEN SetVimMode(Hide(s), "DEFAULT")
             ELSE HandleChar(s, char)

\* ------------------------------------------------------------------------
\* VimNavigationMixin: the dispatcher
\* ------------------------------------------------------------------------
\* key strings the application has bound in the keybinding table
BoundKeys == {"s"}

\* KeyBindingManager.handle_key: whether a binding handled the key string
BindingsHandleKey(key_str) == key_str \in BoundKeys

\* find_focusable inside _on_char_hook, NoWidget standing for None
RECURSIVE FindFocusableIn(_)
FindFocusableIn(children) ==
    IF children = <<>>
    THEN NoWidget
    ELSE LET child == Head(children)
         IN  IF Kind[child] = "ListCtrl"
             THEN child
             ELSE LET result == FindFocusableIn(GetChildren(child))
                  IN  IF result # NoWidget
                      THEN result
                      ELSE FindFocusableIn(Tail(children))

FindFocusable(window) == FindFocusableIn(GetChildren(window))

\* VimNavigationMixin._show_input_hints
ShowInputHints(s) ==
    Show(SetVimMode([s EXCEPT !.cmd = "input_hints"], "HINT"), "input")

\* an 'f' command that was copied from 'i' without changing the hint type
ShowAllHints_Input(s) ==
    Show(SetVimMode([s EXCEPT !.cmd = "all_hints"], "HINT"), "input")

\* VimNavigationMixin._show_all_hints
ShowAllHints(s) ==
    Show(SetVimMode([s EXCEPT !.cmd = "all_hints"], "HINT"), "all")

\* VimNavigationMixin._enter_search_mode
EnterSearchMode(s) ==
    SearchShow(SetVimMode([s EXCEPT !.cmd = "search"], "SEARCH"))

\* an Escape branch that looks at the focus before it looks at the mode
OnEscape_FocusFirst(s) ==
    IF IsInput(s.focus)
    THEN [s EXCEPT !.pending = @ + 1]
    ELSE IF s.vim_mode = "HINT"
    THEN SetVimMode(Hide(s), "DEFAULT")
    ELSE IF s.vim_mode = "SEARCH"
    THEN SetVimMode(SearchHide(s), "DEFAULT")
    ELSE Skip(s)

\* _on_char_hook for the Escape key: cancel the mode, or schedule do_focus
OnEscape(s) ==
    LET focused == s.focus
        is_input == IsInput(focused)
    IN  IF s.vim_mode = "HINT"
        THEN SetVimMode(Hide(s), "DEFAULT")
        ELSE IF s.vim_mode = "SEARCH"
        THEN SetVimMode(SearchHide(s), "DEFAULT")
        ELSE IF is_input /\ focused # NoWidget
        THEN [s EXCEPT !.pending = @ + 1]
        ELSE Skip(s)

\* the navigation keys of DEFAULT mode and the custom bindings
OnDefaultKey(s, keycode) ==
    LET key_str == GetKeyString(keycode)
    IN  IF key_str = "i" THEN ShowInputHints(s)
        ELSE IF key_str = "f" THEN ShowAllHints(s)
        ELSE IF key_str = "/" THEN EnterSearchMode(s)
        ELSE IF BindingsHandleKey(key_str) THEN [s EXCEPT !.cmd = "binding"]
        ELSE Skip(s)

\* a dispatcher that looks for navigation keys without looking at the focus
OnOtherKey_NoInputCheck(s, keycode, search_ret) ==
    IF s.vim_mode = "HINT"
    THEN LET r == HandleKey(s, keycode)
         IN  IF r.raised \/ r.ret THEN r ELSE Skip(r)
    ELSE IF s.vim_mode = "SEARCH"
    THEN IF search_ret THEN s ELSE Skip(s)
    ELSE OnDefaultKey(s, keycode)

\* _on_char_hook for every other key; search_ret is what the search
\* overlay's handle_key returns
OnOtherKey(s, keycode, search_ret) ==
    LET is_input == IsInput(s.focus)
    IN  IF s.vim_mode = "HINT"
        THEN LET r == HandleKey(s, keycode)
             IN  IF r.raised \/ r.ret THEN r ELSE Skip(r)
        ELSE IF s.vim_mode = "SEARCH"
        THEN IF search_ret THEN s ELSE Skip(s)
        ELSE IF is_input
        THEN Skip(s)
        ELSE IF s.vim_mode = "DEFAULT"
        THEN OnDefaultKey(s, keycode)
        ELSE Skip(s)

\* VimNavigationMixin._on_char_hook
OnCharHook(s, keycode, search_ret) ==
    IF keycode = WXK_ESCAPE
    THEN OnEscape(s)
    ELSE OnOtherKey(s, keycode, search_ret)

\* do_focus inside _on_char_hook, run by wx.CallLater
DoFocusBody(s) ==
    LET target == FindFocusable(Frame)
    IN  IF target # NoWidget THEN SetFocus(s, target) ELSE s

\* ------------------------------------------------------------------------
\* Record of the last completed operation and of the running session
\* ------------------------------------------------------------------------
Overlay(s) ==
    <<s.vim_mode, s.hints, s.hint_windows, s.current_input, s.search_shown,
      s.status_text>>

NoEvent ==
    [op |-> "init", key |-> 0, mode |-> "DEFAULT", focus |-> NoWidget,
     had_hints |-> FALSE, skipped |-> FALSE, raised |-> FALSE,
     cmd |-> "none", acts |-> 0, changed |-> FALSE, scheduled |-> FALSE,
     buffered |-> 0, stale |-> FALSE]

Off == <<"off">>
NoToggles == [w \in CheckBoxes |-> 0]

\* the characters fed so far, while they still spell the start of a label
Feed(t, keycode) ==
    IF t = Off
    THEN Off
    ELSE LET n == Append(t, KeyChar(keycode))
         IN  IF \E i \in 1..Len(session) : StartsWith(session[i].hint, n)
             THEN n
             ELSE Off

\* the record of the session being followed, and its end
Track(se, ty, ac, to) ==
    /\ session' = se
    /\ typed' = ty
    /\ activated' = ac
    /\ toggles' = to

Untrack == Track(<<>>, Off, <<>>, NoToggles)

\* assignment of the program state from a result record
Commit(s) ==
    /\ vim_mode' = s.vim_mode
    /\ hints' = s.hints
    /\ hint_windows' = s.hint_windows
    /\ current_input' = s.current_input
    /\ search_shown' = s.search_shown
    /\ status_text' = s.status_text
    /\ focus' = s.focus
    /\ value' = s.value
    /\ pending' = s.pending

\* ------------------------------------------------------------------------
\* Actions
\* ------------------------------------------------------------------------
Init ==
    /\ vim_mode = "DEFAULT"
    /\ hints = <<>>
    /\ hint_windows = <<>>
    /\ current_input = <<>>
    /\ search_shown = FALSE
    /\ status_text = ""
    /\ focus = NoWidget
    /\ status = [w \in Widgets |-> "ok"]
    /\ item_count \in RowCounts
    /\ value = [w \in CheckBoxes |-> FALSE]
    /\ pending = 0
    /\ ev = NoEvent
    /\ session = <<>>
    /\ typed = Off
    /\ activated = <<>>
    /\ toggles = NoToggles

\* the key completes the label of a hint whose widget has been destroyed
StaleMatch(keycode) ==
    \E i \in 1..Len(hints) :
        /\ hints[i].hint = Append(current_input, KeyChar(keycode))
        /\ IsDestroyed(hints[i].widget[1])

\* one EVT_CHAR_HOOK event, handled to completion; search_ret is drawn only
\* where the search overlay is asked
KeyEventWith(keycode, search_ret) ==
    LET s == OnCharHook(Cur, keycode, search_ret)
        showed == s.cmd \in {"input_hints", "all_hints"} /\ s.hints # <<>>
        fed == Feed(typed, keycode)
    IN  /\ s.pending <= MaxPending
        /\ Commit(s)
        /\ IF showed
           THEN Track(s.hints, <<>>, <<>>, NoToggles)
           ELSE IF fed = Off
           THEN Untrack
           ELSE Track(session, fed, s.activated, s.toggles)
        /\ ev' = [op |-> "key", key |-> keycode, mode |-> vim_mode,
                  focus |-> focus, had_hints |-> hints # <<>>,
                  skipped |-> s.skipped, raised |-> s.raised,
                  cmd |-> s.cmd,
                  acts |-> Len(s.activated) - Len(activated),
                  changed |-> Overlay(s) # Overlay(Cur),
                  scheduled |-> s.pending > pending,
                  buffered |-> Len(current_input),
                  stale |-> vim_mode = "HINT" /\ StaleMatch(keycode)]
        /\ UNCHANGED <<status, item_count>>

KeyEvent(keycode) ==
    \E search_ret \in IF vim_mode = "SEARCH" THEN BOOLEAN ELSE {TRUE} :
        KeyEventWith(keycode, search_ret)

\* the host calls set_vim_mode
SetVimModeCall(mode) ==
    LET s == SetVimMode(Cur, mode)
    IN  /\ Commit(s)
        /\ Untrack
        /\ ev' = [NoEvent EXCEPT !.op = "set_vim_mode"]
        /\ UNCHANGED <<status, item_count>>

\* the host calls hint_overlay.hide()
HideCall ==
    LET s == Hide(Cur)
    IN  /\ Commit(s)
        /\ Untrack
        /\ ev' = [NoEvent EXCEPT !.op = "hide", !.mode = vim_mode,
                                 !.had_hints = hints # <<>>,
                                 !.buffered = Len(current_input),
                                 !.raised = s.raised,
                                 !.changed = Overlay(s) # Overlay(Cur)]
        /\ UNCHANGED <<status, item_count>>

\* a scheduled do_focus callback runs
DoFocus ==
    /\ pending > 0
    /\ Commit([DoFocusBody(Cur) EXCEPT !.pending = @ - 1])
    /\ Untrack
    /\ ev' = [NoEvent EXCEPT !.op = "do_focus", !.focus = focus]
    /\ UNCHANGED <<status, item_count>>

\* the application hides, shows, disables, enables or destroys a widget
WidgetChanges ==
    {<<1, "hidden">>, <<1, "ok">>,
     <<3, "hidden">>, <<3, "disabled">>, <<3, "ok">>,
     <<2, "destroyed">>, <<5, "destroyed">>}

WidgetChange(w, st) ==
    /\ <<w, st>> \in WidgetChanges
    /\ status[w] # st
    /\ ~IsDestroyed(w)
    /\ status' = [status EXCEPT ![w] = st]
    /\ focus' = IF focus = w /\ st = "destroyed" THEN NoWidget ELSE focus
    /\ Untrack
    /\ ev' = [NoEvent EXCEPT !.op = "widget"]
    /\ UNCHANGED <<vim_mode, hints, hint_windows, current_input,
                   search_shown, status_text, item_count, value, pending>>

\* the user moves the keyboard focus with the pointer
UserFocus(w) ==
    /\ w \in {NoWidget, 4}
    /\ focus # w
    /\ w # NoWidget => (IsShown(w) /\ IsEnabled(w))
    /\ focus' = w
    /\ Untrack
    /\ ev' = [NoEvent EXCEPT !.op = "focus"]
    /\ UNCHANGED <<vim_mode, hints, hint_windows, current_input,
                   search_shown, status_text, status, item_count, value,
                   pending>>

Next ==
    \/ \E keycode \in Keys : KeyEvent(keycode)
    \/ \E mode \in VimModes : SetVimModeCall(mode)
    \/ HideCall
    \/ DoFocus
    \/ \E w \in Widgets, st \in {"ok", "hidden", "disabled", "destroyed"} :
          WidgetChange(w, st)
    \/ \E w \in {NoWidget} \cup Widgets : UserFocus(w)

Spec == Init /\ [][Next]_vars

\* ------------------------------------------------------------------------
\* The labelling loop of show() on its own: a list control with MaxTargets
\* items, one iteration of the loop per step.
\* ------------------------------------------------------------------------
ManyRows == [i \in 1..MaxTargets |-> <<5, i - 1>>]

LabelInit ==
    /\ vim_mode = "HINT"
    /\ hints = <<>>
    /\ hint_windows = <<>>
    /\ current_input = <<>>
    /\ search_shown = FALSE
    /\ status_text = "-- HINTS --"
    /\ focus = NoWidget
    /\ status = [w \in Widgets |-> "ok"]
    /\ item_count = MaxTargets
    /\ value = [w \in CheckBoxes |-> FALSE]
    /\ pending = 0
    /\ ev = NoEvent
    /\ session = <<>>
    /\ typed = Off
    /\ activated = <<>>
    /\ toggles = NoToggles

ShowStep ==
    /\ Len(hints) < MaxTargets
    /\ LET s == ShowOne(Cur, ManyRows, Len(hints))
       IN  /\ hints' = s.hints
           /\ hint_windows' = s.hint_windows
    /\ UNCHANGED <<vim_mode, current_input, search_shown, status_text,
                   focus, status, item_count, value, pending, ev, session,
                   typed, activated, toggles>>

LabelNext == ShowStep

LabelSpec == LabelInit /\ [][LabelNext]_vars

\* ------------------------------------------------------------------------
\* handle_key on sessions whose labels are given: the overlay's hints and
\* hint_windows are filled in directly, one hint per list row, with up to
\* MaxNarrowHints distinct labels, and keys are fed while the session lives.
\* ------------------------------------------------------------------------
NarrowLabels ==
    {<<"a">>, <<"s">>, <<"a", "a">>, <<"a", "s">>, <<"s", "a">>,
     <<"a", "s", "a">>}

NarrowSessions ==
    {ls \in UNION {[1..n -> NarrowLabels] : n \in 1..MaxNarrowHints} :
        \A i \in 1..Len(ls) : \A j \in 1..Len(ls) : i # j => ls[i] # ls[j]}

NarrowInit ==
    /\ vim_mode = "HINT"
    /\ \E ls \in NarrowSessions :
          /\ hints = [i \in 1..Len(ls) |->
                         [widget |-> <<5, i - 1>>, hint |-> ls[i]]]
          /\ hint_windows = [i \in 1..Len(ls) |->
                                CreateHintWindow(<<5, i - 1>>, ls[i])]
    /\ current_input = <<>>
    /\ search_shown = FALSE
    /\ status_text = "-- HINTS --"
    /\ focus = NoWidget
    /\ status = [w \in Widgets |-> "ok"]
    /\ item_count = MaxRows
    /\ value = [w \in CheckBoxes |-> FALSE]
    /\ pending = 0
    /\ ev = NoEvent
    /\ session = hints
    /\ typed = <<>>
    /\ activated = <<>>
    /\ toggles = NoToggles

NarrowKey(keycode) ==
    /\ vim_mode = "HINT"
    /\ hints # <<>>
    /\ KeyEvent(keycode)

NarrowNext == \E keycode \in Keys : NarrowKey(keycode)

NarrowSpec == NarrowInit /\ [][NarrowNext]_vars

\* ------------------------------------------------------------------------
\* Vocabulary of the properties
\* ------------------------------------------------------------------------
ProperPrefix(p, s) == Len(p) < Len(s) /\ SubSeq(s, 1, Len(p)) = p

\* a text box, combo box or search box
TextEntry(w) ==
    /\ w # NoWidget
    /\ Kind[w] \in {"TextCtrl", "ComboBox", "SearchCtrl"}

\* the key of a letter of the alphabet, in either case
AlphabetKey(keycode) ==
    /\ 32 <= keycode /\ keycode <= 126
    /\ \E i \in 1..Len(HINT_CHARACTERS) :
          Printable[keycode - 31] \in
              {HINT_CHARACTERS[i], Upper(HINT_CHARACTERS[i])}

NoSession ==
    /\ hints = <<>>
    /\ hint_windows = <<>>
    /\ current_input = <<>>

KeyDone == ev.op = "key"

\* widgets in depth-first pre-order, subtrees of hidden or disabled widgets
\* left out
RECURSIVE PreOrder(_)
RECURSIVE PreOrderEach(_)
PreOrder(w) ==
    IF status[w] \in {"hidden", "disabled", "destroyed"}
    THEN <<>>
    ELSE <<w>> \o PreOrderEach(ChildList[w])

PreOrderEach(ws) ==
    IF ws = <<>> THEN <<>> ELSE PreOrder(Head(ws)) \o PreOrderEach(Tail(ws))

\* focusable widgets that are not text-entry widgets, in that order
FocusCandidates ==
    SelectSeq(PreOrder(Frame),
              LAMBDA w : Kind[w] \in {"Button", "BitmapButton", "ToggleButton",
                                      "CheckBox", "RadioButton", "Choice",
                                      "ListCtrl"})

\* the running session has one hint per target of the given set, in order
SessionOver(hint_type) ==
    LET ws == FindWidgets(hint_type)
    IN  ws # <<>> =>
           /\ vim_mode = "HINT"
           /\ current_input = <<>>
           /\ Len(hints) = Len(ws)
           /\ Len(hint_windows) = Len(ws)
           /\ \A i \in 1..Len(ws) : hints[i].widget = ws[i]

\* ------------------------------------------------------------------------
\* Properties
\* ------------------------------------------------------------------------

\* C1: among the labels show() has assigned so far, no label is a proper
\* prefix of another (LabelSpec; the labels of indices 0..k-1 for every k up
\* to MaxTargets).
C1_PrefixFree ==
    \A i \in 1..Len(hints) : \A j \in 1..Len(hints) :
        ~ProperPrefix(hints[i].hint, hints[j].hint)

\* C2: once the characters of a checkbox hint's full label have been fed,
\* key by key, right after show(), that checkbox was toggled exactly once,
\* nothing else was activated, the session is gone and the mode is DEFAULT.
C2_FullLabelTogglesOnce ==
    \A i \in 1..Len(session) :
        LET target == session[i].widget
        IN  (/\ KeyDone
             /\ target[2] = NoRow
             /\ Kind[target[1]] = "CheckBox"
             /\ typed = session[i].hint)
            => /\ toggles[target[1]] = 1
               /\ activated = <<target>>
               /\ NoSession
               /\ vim_mode = "DEFAULT"

\* C3: after a key event or a set_vim_mode call, a mode other than HINT
\* means no hints, no hint windows and an empty input buffer.
C3_NoSessionOutsideHint ==
    (ev.op \in {"key", "set_vim_mode"} /\ vim_mode # "HINT") => NoSession

C3_Witness ==
    /\ KeyDone
    /\ ev.mode = "HINT"
    /\ ev.had_hints
    /\ ev.acts = 1
    /\ vim_mode = "DEFAULT"

\* C4: a key other than Escape that arrives in DEFAULT mode while a
\* text-entry widget has the focus is skipped, changes neither mode nor
\* overlay and runs no command, binding, activation or scheduling.
C4_PassThrough ==
    (/\ KeyDone
     /\ ev.mode = "DEFAULT"
     /\ TextEntry(ev.focus)
     /\ ev.key # WXK_ESCAPE)
    => /\ ev.skipped
       /\ ~ev.changed
       /\ ev.cmd = "none"
       /\ ev.acts = 0
       /\ ~ev.scheduled
       /\ ~ev.raised

C4_Witness ==
    /\ KeyDone
    /\ ev.mode = "DEFAULT"
    /\ TextEntry(ev.focus)
    /\ ev.key = 105
    /\ ev.skipped

\* C5: Escape in HINT or SEARCH mode, whatever has the focus, tears the
\* mode's overlay down, sets the mode to DEFAULT and is consumed.
C5_EscapeCancels ==
    (/\ KeyDone
     /\ ev.key = WXK_ESCAPE
     /\ ev.mode \in {"HINT", "SEARCH"})
    => /\ vim_mode = "DEFAULT"
       /\ NoSession
       /\ ~search_shown
       /\ status_text = ""
       /\ ~ev.skipped
       /\ ~ev.scheduled
       /\ ~ev.raised

C5_Witness ==
    /\ KeyDone
    /\ ev.key = WXK_ESCAPE
    /\ ev.mode = "HINT"
    /\ ev.had_hints
    /\ TextEntry(ev.focus)
    /\ vim_mode = "DEFAULT"

\* C6: Escape in DEFAULT mode on a text-entry widget is consumed, keeps the
\* mode and schedules do_focus; when do_focus has run, the focus is on the
\* first focusable non-text-entry widget of the collector's traversal order,
\* and where it was if there is none.
C6_DefocusFirstFocusable ==
    /\ (/\ KeyDone
        /\ ev.key = WXK_ESCAPE
        /\ ev.mode = "DEFAULT"
        /\ TextEntry(ev.focus))
       => (~ev.skipped /\ vim_mode = "DEFAULT" /\ ev.scheduled)
    /\ ev.op = "do_focus"
       => focus = IF FocusCandidates # <<>>
                  THEN Head(FocusCandidates)
                  ELSE ev.focus

\* C7: an 'i' or 'f' command whose collection is empty leaves no hints and
\* no hint windows, and the mode is DEFAULT once the key event is done.
C7_NoTargetsReverts ==
    /\ (KeyDone /\ ev.cmd = "input_hints" /\ FindWidgets("input") = <<>>)
       => (hints = <<>> /\ hint_windows = <<>> /\ vim_mode = "DEFAULT")
    /\ (KeyDone /\ ev.cmd = "all_hints" /\ FindWidgets("all") = <<>>)
       => (hints = <<>> /\ hint_windows = <<>> /\ vim_mode = "DEFAULT")

C7_Witness ==
    /\ KeyDone
    /\ ev.cmd = "all_hints"
    /\ FindWidgets("all") = <<>>
    /\ vim_mode = "DEFAULT"

\* C8: in a running session, a key that is neither Escape nor a letter of
\* the alphabet ends the session: nothing is activated, hints, windows and
\* buffer are gone, the mode is DEFAULT and the key is consumed.
C8_OtherKeyEndsSession ==
    (/\ KeyDone
     /\ ev.mode = "HINT"
     /\ ev.had_hints
     /\ ev.key # WXK_ESCAPE
     /\ ~AlphabetKey(ev.key))
    => /\ ev.acts = 0
       /\ NoSession
       /\ vim_mode = "DEFAULT"
       /\ ~ev.skipped
       /\ ~ev.raised

C8_Witness ==
    /\ KeyDone
    /\ ev.mode = "HINT"
    /\ ev.had_hints
    /\ ev.key = 105
    /\ vim_mode = "DEFAULT"

\* C9: in DEFAULT mode with the focus off the text-entry widgets, 'i' starts
\* a session over the input targets, 'f' one over all targets and '/' enters
\* SEARCH mode; each key is consumed, and a session that found targets has
\* mode HINT, one hint per collected target and an empty buffer.
C9_BuiltinCommands ==
    (/\ KeyDone
     /\ ev.mode = "DEFAULT"
     /\ ~TextEntry(ev.focus))
    => /\ ev.key = 105 =>
             (ev.cmd = "input_hints" /\ ~ev.skipped /\ SessionOver("input"))
       /\ ev.key = 102 =>
             (ev.cmd = "all_hints" /\ ~ev.skipped /\ SessionOver("all"))
       /\ ev.key = 47 =>
             (ev.cmd = "search" /\ ~ev.skipped /\ vim_mode = "SEARCH")

C9_Witness ==
    /\ KeyDone
    /\ ev.mode = "DEFAULT"
    /\ ev.key = 102
    /\ vim_mode = "HINT"
    /\ Len(hints) > Len(HINT_CHARACTERS)
    /\ Len(FindWidgets("input")) = 1

\* C10: the label show() has just assigned is non-empty, uses alphabet
\* characters only and differs from every label assigned before it
\* (LabelSpec; over all steps: the labels of indices 0..k-1 are pairwise
\* distinct for every k up to MaxTargets).
C10_LabelsDistinct ==
    LET n == Len(hints)
    IN  n > 0 =>
           /\ hints[n].hint # <<>>
           /\ \A c \in 1..Len(hints[n].hint) :
                 InChars(hints[n].hint[c], HINT_CHARACTERS)
           /\ \A j \in 1..(n - 1) : hints[j].hint # hints[n].hint

C10_Witness ==
    /\ Len(hints) >= 1000
    /\ Len(hints[Len(hints)].hint) = 3

\* the label of an index below n + n*n as the design states it
RefLabel(index) ==
    LET n == Len(HINT_CHARACTERS)
    IN  IF index < n
        THEN <<HINT_CHARACTERS[index + 1]>>
        ELSE <<HINT_CHARACTERS[((index - n) \div n) + 1],
               HINT_CHARACTERS[((index - n) % n) + 1]>>

\* C11: the label show() has just assigned to index k-1 is the reference
\* label for every index below n + n*n; indices 0..14 get the single
\* alphabet characters in order, index 15 gets "aa" and index 29 gets "ab"
\* (LabelSpec).
C11_LabelMatchesReference ==
    LET k == Len(hints)
        n == Len(HINT_CHARACTERS)
    IN  /\ (k > 0 /\ k - 1 < n + n * n) => hints[k].hint = RefLabel(k - 1)
        /\ (k > 0 /\ k <= 15) => hints[k].hint = <<HINT_CHARACTERS[k]>>
        /\ k = 16 => hints[k].hint = <<"a", "a">>
        /\ k = 30 => hints[k].hint = <<"a", "b">>

C11_Witness ==
    /\ Len(hints) = 30
    /\ hints[30].hint = <<"a", "b">>
    /\ hints[16].hint = <<"a", "a">>

\* the chain of containers above a widget, nearest first
RECURSIVE AncestorsOf(_)
AncestorsOf(w) ==
    IF \E p \in Widgets : \E i \in 1..Len(ChildList[p]) : ChildList[p][i] = w
    THEN LET p == CHOOSE q \in Widgets :
                      \E i \in 1..Len(ChildList[q]) : ChildList[q][i] = w
         IN  <<p>> \o AncestorsOf(p)
    ELSE <<>>

AncestorSet(w) == {AncestorsOf(w)[i] : i \in 1..Len(AncestorsOf(w))}

\* the widget exists, is shown, and neither it nor a container above it is
\* disabled (the toolkit reports a widget in a disabled container as not
\* enabled)
ShownAndEnabled(w) ==
    /\ status[w] = "ok"
    /\ \A a \in AncestorSet(w) : status[a] \notin {"disabled", "destroyed"}

\* every container above the widget is shown
AncestorsShown(w) == \A a \in AncestorSet(w) : status[a] # "hidden"

\* widgets that are hinted as one target under the hint type
EligibleKinds(hint_type) ==
    IF hint_type = "input" THEN InputKinds ELSE ClickableKinds

\* the targets of a collection that are widgets, not list rows
WidgetTargets(hint_type) ==
    SelectSeq(FindWidgets(hint_type), LAMBDA t : t[2] = NoRow)

\* C12 as stated: the collection has exactly as many widget targets as the
\* tree has eligible widgets that are shown and enabled, wherever the
\* hidden and disabled widgets are.
C12_CountsShownEnabled ==
    \A hint_type \in {"input", "all"} :
        Len(WidgetTargets(hint_type)) =
            Cardinality({w \in Widgets :
                            /\ Kind[w] \in EligibleKinds(hint_type)
                            /\ ShownAndEnabled(w)})

\* C12, amended: the collection has exactly one widget target for each
\* eligible, shown and enabled widget whose containers are all shown.
C12_CountsReachable ==
    \A hint_type \in {"input", "all"} :
        /\ Len(WidgetTargets(hint_type)) =
              Cardinality({w \in Widgets :
                              /\ Kind[w] \in EligibleKinds(hint_type)
                              /\ ShownAndEnabled(w)
                              /\ AncestorsShown(w)})
        /\ \A i \in 1..Len(WidgetTargets(hint_type)) :
              LET w == WidgetTargets(hint_type)[i][1]
              IN  /\ Kind[w] \in EligibleKinds(hint_type)
                  /\ ShownAndEnabled(w)
                  /\ AncestorsShown(w)

C12_Witness ==
    /\ status[3] = "disabled"
    /\ status[4] = "ok"
    /\ status[2] = "destroyed"
    /\ Len(FindWidgets("all")) = 1
    /\ FindWidgets("input") = <<>>

\* the hints of the session whose target belongs to widget w
HintsOf(w) == SelectSeq(hints, LAMBDA h : h.widget[1] = w)

\* the list control w contributes its rows, in order, each with its own
\* label, and nothing else
RowsHinted(w) ==
    LET rows == HintsOf(w)
    IN  /\ Len(rows) = item_count
        /\ \A r \in 1..Len(rows) : rows[r].widget = <<w, r - 1>>
        /\ \A r1 \in 1..Len(rows) : \A r2 \in 1..Len(rows) :
              r1 # r2 => rows[r1].hint # rows[r2].hint

Appended ==
    /\ KeyDone
    /\ ev.mode = "HINT"
    /\ ev.had_hints
    /\ AlphabetKey(ev.key)

\* C14: when an alphabet key makes the buffer a proper prefix of some label
\* and equal to none, the session stays and the windows shown are exactly
\* those of the hints whose label starts with the buffer; when a further
\* alphabet key leaves no label starting with the buffer, the session is
\* gone and the mode is DEFAULT (NarrowSpec).
C14_Narrowing ==
    /\ (/\ Appended
        /\ typed # Off
        /\ Len(typed) = ev.buffered + 1
        /\ \E i \in 1..Len(session) : ProperPrefix(typed, session[i].hint)
        /\ \A i \in 1..Len(session) : session[i].hint # typed)
       => /\ vim_mode = "HINT"
          /\ hints = session
          /\ current_input = typed
          /\ Len(hint_windows) = Len(hints)
          /\ \A i \in 1..Len(hints) :
                hint_windows[i].shown <=> StartsWith(hints[i].hint, typed)
    /\ (/\ Appended
        /\ ev.buffered > 0
        /\ typed = Off)
       => (NoSession /\ vim_mode = "DEFAULT")

C14_Witness ==
    /\ Appended
    /\ vim_mode = "HINT"
    /\ current_input = <<"a">>
    /\ typed = <<"a">>
    /\ Len(hints) = 3
    /\ \E i \in 1..Len(hints) : hint_windows[i].shown
    /\ \E i \in 1..Len(hints) : ~hint_windows[i].shown

C14_FurtherKeyWitness ==
    /\ Appended
    /\ ev.buffered = 1
    /\ typed = Off
    /\ vim_mode = "DEFAULT"

\* C15: there are as many hint windows as hints, and the i-th window is the
\* marker of the i-th hint: it sits on that hint's target and shows that
\* hint's label.
C15_WindowsMatchHints ==
    /\ Len(hint_windows) = Len(hints)
    /\ \A i \in 1..Len(hints) :
          /\ i <= Len(hint_windows)
          /\ hint_windows[i].target = hints[i].widget
          /\ hint_windows[i].label = UpperStr(hints[i].hint)

C15_Witness ==
    /\ KeyDone
    /\ ev.cmd = "input_hints"
    /\ vim_mode = "HINT"
    /\ Len(hints) = 1
    /\ Len(hint_windows) = 1
    /\ hint_windows[1].target = <<4, NoRow>>

\* C16: a completed hide() raised nothing and left the mode alone; a second
\* hide() right after it would change nothing; and a hide() on an overlay
\* without hints, windows and buffer changed nothing.
C16_HideIdempotent ==
    ev.op = "hide" =>
        /\ ~ev.raised
        /\ vim_mode = ev.mode
        /\ NoSession
        /\ Hide(Cur) = Cur
        /\ (~ev.had_hints /\ ev.buffered = 0) => ~ev.changed

C16_Witness ==
    /\ ev.op = "hide"
    /\ ~ev.had_hints
    /\ ev.buffered = 0
    /\ ~ev.changed
    /\ ev.mode = "HINT"

C16_SessionWitness ==
    /\ ev.op = "hide"
    /\ ev.had_hints
    /\ ev.changed
    /\ NoSession

\* C17: no target of a collection belongs to a widget that is hidden or
\* disabled, nor to a widget below one, whatever the widget's own state.
C17_PrunedSubtrees ==
    \A hint_type \in {"input", "all"} :
        \A i \in 1..Len(FindWidgets(hint_type)) :
            LET w == FindWidgets(hint_type)[i][1]
            IN  /\ status[w] \notin {"hidden", "disabled"}
                /\ \A a \in AncestorSet(w) :
                      status[a] \notin {"hidden", "disabled"}

C17_Witness ==
    /\ status[3] = "disabled"
    /\ status[4] = "ok"
    /\ status[5] = "ok"
    /\ item_count = MaxRows
    /\ Len(FindWidgets("all")) = 2
    /\ FindWidgets("input") = <<>>

\* the targets one widget stands for: its rows for a list control in an
\* 'all' collection, itself for an eligible widget
TargetsOf(w, hint_type) ==
    IF hint_type = "all" /\ Kind[w] = "ListCtrl"
    THEN [r \in 1..item_count |-> <<w, r - 1>>]
    ELSE IF Kind[w] \in EligibleKinds(hint_type)
         THEN << <<w, NoRow>> >>
         ELSE <<>>

RECURSIVE TargetsOfEach(_, _)
TargetsOfEach(ws, hint_type) ==
    IF ws = <<>>
    THEN <<>>
    ELSE TargetsOf(Head(ws), hint_type) \o TargetsOfEach(Tail(ws), hint_type)

\* the targets in depth-first pre-order of the tree without its pruned
\* subtrees
ExpectedTargets(hint_type) == TargetsOfEach(PreOrder(Frame), hint_type)

\* the session holds the targets of that order, the i-th with the label of
\* index i-1
SessionInOrder(hint_type) ==
    LET ws == ExpectedTargets(hint_type)
    IN  /\ Len(hints) = Len(ws)
        /\ \A i \in 1..Len(ws) :
              /\ hints[i].widget = ws[i]
              /\ hints[i].hint = RefLabel(i - 1)

Indicator(mode) ==
    IF mode = "HINT" THEN "-- HINTS --"
    ELSE IF mode = "SEARCH" THEN "-- SEARCH --"
    ELSE ""

\* C19: after a key event or a set_vim_mode call, status bar field 1 shows
\* the indicator of the current mode, and nothing in DEFAULT mode.
C19_IndicatorShowsMode ==
    ev.op \in {"key", "set_vim_mode"} =>
        /\ status_text = Indicator(vim_mode)
        /\ status_text = "-- HINTS --" <=> vim_mode = "HINT"
        /\ status_text = "-- SEARCH --" <=> vim_mode = "SEARCH"
        /\ status_text = "" <=> vim_mode = "DEFAULT"

C19_Witness ==
    /\ KeyDone
    /\ ev.mode = "HINT"
    /\ ev.had_hints
    /\ AlphabetKey(ev.key)
    /\ ev.acts = 0
    /\ vim_mode = "DEFAULT"
    /\ status_text = ""

\* C20: when a key completes the label of a hint whose widget was destroyed
\* after collection, no error leaves the key handler, the session is torn
\* down and the mode is DEFAULT.
C20_StaleTargetFailsClosed ==
    (KeyDone /\ ev.stale) =>
        /\ ~ev.raised
        /\ vim_mode = "DEFAULT"
        /\ NoSession

\* C21: a session opened by show() does not survive a key event: after a key
\* handled in HINT mode the mode is DEFAULT and the buffer is empty, so the
\* buffer never holds more than one character.
C21_SessionEndsOnKey ==
    /\ (KeyDone /\ ev.mode = "HINT" /\ ev.had_hints) =>
           /\ vim_mode = "DEFAULT"
           /\ current_input = <<>>
    /\ Len(current_input) <= 1

====
